---- MODULE Spec2Model ----
(***************************************************************************)
(* Certificate-bound challenge-response authentication of natsable:        *)
(* the challenge ledger and the session ledger of middleware/auth.ts, the  *)
(* bundle login of routes/auth.ts, and the periodic cleanup.               *)
(*                                                                         *)
(* Time is Date.now() in milliseconds.  A certificate submitted as PEM is  *)
(* a record: form says whether the text holds no certificate block, a     *)
(* block that X509Certificate cannot parse, or a certificate; fp is        *)
(* fingerprint256, key the key pair, signedByCA whether its signature      *)
(* verifies under the key of ca.crt.  A signature is the pair of the key   *)
(* that made it and the text it was made over.                             *)
(***************************************************************************)
EXTENDS Integers, Sequences, FiniteSets, TLC

VARIABLES
    now,            \* Date.now()
    challenges,     \* the challenge store: challengeId -> Challenge
    sessions,       \* the session store: sessionId -> Session
    nextChallenge,  \* the next fresh challengeId (randomBytes(16))
    nextSession,    \* the next fresh sessionId (randomBytes(32))
    pending,        \* the verifySignature calls awaiting readFile
    last,           \* the operation that returned last, and its result
    accepted,       \* history: how often verifySignature returned valid, per challengeId
    transient,      \* history: the challengeIds a verifySignature call failed to read ca.crt for
    revoked,        \* history: the sessions that logout removed from the store
    swept,          \* history: the challengeIds the periodic cleanup removed
    isRunning,      \* StatsCollector.isRunning
    collectionTimer, \* StatsCollector.collectionTimer: an interval id, 0 for null
    cleanupTimer,   \* StatsCollector.cleanupTimer: an interval id, 0 for null
    timers,         \* the intervals that are set: id -> the callback they run
    nextTimer,      \* the next fresh interval id
    dataPoints,     \* StatsCollector.dataPoints
    collecting,     \* the collect() calls that await their fetches
    certSubject,    \* the subject of a certificate handed to extractUsername
    extracted       \* what extractUsername returned for it

authVars == <<now, challenges, sessions, nextChallenge, nextSession, pending, last,
              accepted, transient, revoked, swept>>

statsVars == <<isRunning, collectionTimer, cleanupTimer, timers, nextTimer, dataPoints,
               collecting>>

identityVars == <<certSubject, extracted>>

vars == <<authVars, statsVars, identityVars>>

----------------------------------------------------------------------------
(* Bounds of the model *)

MaxChallenges == 1
MaxSessions == 2
MaxPending == 2
MaxMs == 1
MaxMinutes == 1
MaxDays == 1

MaxAttrs == 3

MaxTimers == 4

MaxCollects == 2

MaxPoints == 3

----------------------------------------------------------------------------
(* Program constants *)

SESSION_EXPIRY == 24 * 60 * 60 * 1000

CHALLENGE_EXPIRY == 60 * 1000

Null == "<null>"

ErrNoCertFile == "No certificate found in file"
ErrNoCert == "No certificate found"
ErrNotSigned == "Certificate not signed by CA"
ErrCertExpired == "Certificate has expired"
ErrNotFound == "Challenge not found or expired"
ErrChallengeExpired == "Challenge expired"
ErrMismatch == "Certificate mismatch"
ErrBadSignature == "Invalid signature"
ErrNoKey == "No private key found in file"
ErrThrownParse == "error:0480006C:PEM routines::no start line"
ErrThrownRead == "ENOENT: no such file or directory, open 'ca.crt'"
NoError == ""

----------------------------------------------------------------------------
(* Clock: the instants the model visits *)

InHorizon(t) ==
    /\ t \div SESSION_EXPIRY <= MaxDays
    /\ (t % SESSION_EXPIRY) \div CHALLENGE_EXPIRY <= MaxMinutes
    /\ (t % SESSION_EXPIRY) % CHALLENGE_EXPIRY <= MaxMs

(* createdAt and expiresAt are two evaluations of Date.now() in one object  *)
(* literal: the second reads the same millisecond or the next.  The clock   *)
(* after the second evaluation is now'.                                     *)
ReadClockAgain == \E d \in {0, 1} : InHorizon(now + d) /\ now' = now + d

(* the clock steps of the challenge protocol and of the session ledger *)
ChallengeSteps == {1, CHALLENGE_EXPIRY}

SessionSteps == {1, SESSION_EXPIRY}

----------------------------------------------------------------------------
(* Certificates, keys and signatures the clients can submit *)

FarFuture == 10 * SESSION_EXPIRY

Attr(k, v) == [k |-> k, v |-> v]

MkCert(fp, key, signed, from, to, subject) ==
    [form |-> "x509", fp |-> fp, key |-> key, signedByCA |-> signed,
     validFrom |-> from, validTo |-> to, subject |-> subject]

NoPem == [form |-> "none", fp |-> 0, key |-> 0, signedByCA |-> FALSE,
          validFrom |-> 0, validTo |-> 0, subject |-> <<>>]

MalformedPem == [form |-> "malformed", fp |-> 0, key |-> 0, signedByCA |-> FALSE,
                 validFrom |-> 0, validTo |-> 0, subject |-> <<>>]

AliceCert == MkCert(1, 1, TRUE, 0, FarFuture,
                    <<Attr("CN", "alice@example.com"), Attr("O", "Org")>>)

(* a second certificate issued for Alice's key pair *)
AliceRenewed == MkCert(2, 1, TRUE, 0, FarFuture,
                       <<Attr("O", "Org"), Attr("emailAddress", "alice@example.com")>>)

(* a CA-signed certificate whose notAfter passes early *)
ShortCert == MkCert(3, 2, TRUE, 0, 0, <<Attr("CN", "bob")>>)

(* a CA-signed certificate whose notBefore is still ahead at start *)
FutureCert == MkCert(4, 2, TRUE, CHALLENGE_EXPIRY, FarFuture, <<Attr("O", "Org")>>)

(* a certificate signed by another CA *)
MalloryCert == MkCert(5, 3, FALSE, 0, FarFuture, <<Attr("CN", "alice@example.com")>>)

Certs == {AliceCert, AliceRenewed, ShortCert, FutureCert, MalloryCert}

PemInputs == Certs \cup {NoPem, MalformedPem}

Keys == {1, 2, 3}

ChallengeIds == 1 .. MaxChallenges

(* A submitted signature text: the bytes its base64 characters stand for  *)
(* (a signature made with key over msg; msg 0 is a text that is no nonce   *)
(* of the ledger) and whether the text also holds characters that are not  *)
(* of the base64 alphabet.                                                 *)
WellFormedSignatures == [key : Keys, msg : 0 .. MaxChallenges, stray : {FALSE}]

MalformedSignatures ==
    {[key |-> AliceCert.key, msg |-> 1, stray |-> TRUE],
     [key |-> MalloryCert.key, msg |-> 0, stray |-> TRUE]}

Signatures == WellFormedSignatures \cup MalformedSignatures

(* the *.crt files of the certs directory other than ca.crt, server.crt *)
ServerCertFiles == <<AliceCert>>

----------------------------------------------------------------------------
(* Ledger records *)

NoChallenge == [challenge |-> 0, certFingerprint |-> 0, createdAt |-> 0, expiresAt |-> 0]

Result(valid, error, fingerprint, username) ==
    [valid |-> valid, error |-> error, fingerprint |-> fingerprint, username |-> username]

Failure(error) == Result(FALSE, error, 0, Null)

(* the last operation that returned: its arguments and its result *)
Last(op, id, res) == [op |-> op, id |-> id, valid |-> res.valid, error |-> res.error]

EmptyMap == [k \in {} |-> 0]

Remove(map, id) == [k \in DOMAIN map \ {id} |-> map[k]]

Put(map, id, rec) == [k \in DOMAIN map \cup {id} |-> IF k = id THEN rec ELSE map[k]]

----------------------------------------------------------------------------
(* Pure helpers of middleware/auth.ts *)

(* parseCertFromPem: the first BEGIN/END CERTIFICATE block, or null *)
parseCertFromPem(pem) == pem.form # "none"

(* new X509Certificate(text) throws on a block it cannot parse *)
X509Throws(pem) == pem.form = "malformed"

(* cert.verify(caCert.publicKey) *)
CertVerify(cert) == cert.signedByCA

(* new Date() > new Date(cert.validTo) *)
CertExpired(cert, t) == t > cert.validTo

(* Date.now() > storedChallenge.expiresAt *)
ChallengeExpired(ch, t) == t > ch.expiresAt

(* createVerify('SHA256').update(nonce).verify(cert.publicKey, signature) *)
(* Buffer.from(signature, 'base64'): the characters outside the alphabet   *)
(* are skipped and the others decoded; it never throws                     *)
BufferFromBase64(sig) == [key |-> sig.key, msg |-> sig.msg]

SignatureVerify(cert, nonce, sig) ==
    BufferFromBase64(sig).key = cert.key /\ BufferFromBase64(sig).msg = nonce

AttrIndexes(subject, k) == {i \in DOMAIN subject : subject[i].k = k}

FirstAttr(subject, k) ==
    subject[CHOOSE i \in AttrIndexes(subject, k) :
                \A j \in AttrIndexes(subject, k) : i <= j].v

(* the attribute that is listed first, whether CN or emailAddress *)
extractUsername_FirstListed(cert) ==
    IF AttrIndexes(cert.subject, "CN") \cup AttrIndexes(cert.subject, "emailAddress") = {}
    THEN Null
    ELSE cert.subject[CHOOSE i \in AttrIndexes(cert.subject, "CN")
                                   \cup AttrIndexes(cert.subject, "emailAddress") :
                         \A j \in AttrIndexes(cert.subject, "CN")
                                   \cup AttrIndexes(cert.subject, "emailAddress") : i <= j].v

extractUsername(cert) ==
    IF AttrIndexes(cert.subject, "CN") # {} THEN FirstAttr(cert.subject, "CN")
    ELSE IF AttrIndexes(cert.subject, "emailAddress") # {}
         THEN FirstAttr(cert.subject, "emailAddress")
         ELSE Null

(* createSession: the ledger with a session under a fresh id; expiresAt is  *)
(* computed from the second reading of the clock                            *)
createSession(keyFingerprint, username) ==
    Put(sessions, nextSession,
        [id |-> nextSession, keyFingerprint |-> keyFingerprint, username |-> username,
         createdAt |-> now, expiresAt |-> now' + SESSION_EXPIRY])

----------------------------------------------------------------------------
(* createChallenge *)

(* createChallenge without the check of the CA signature *)
createChallengeError_NoCA(pem, caOk, t) ==
    IF ~parseCertFromPem(pem) THEN ErrNoCertFile
    ELSE IF X509Throws(pem) THEN ErrThrownParse
    ELSE IF ~caOk THEN ErrThrownRead
    ELSE IF CertExpired(pem, t) THEN ErrCertExpired
    ELSE NoError

(* the checks of createChallenge in order; NoError when all pass *)
createChallengeError(pem, caOk, t) ==
    IF ~parseCertFromPem(pem) THEN ErrNoCertFile
    ELSE IF X509Throws(pem) THEN ErrThrownParse
    ELSE IF ~caOk THEN ErrThrownRead
    ELSE IF ~CertVerify(pem) THEN ErrNotSigned
    ELSE IF CertExpired(pem, t) THEN ErrCertExpired
    ELSE NoError

CreateChallenge(pem, caOk) ==
    LET err == createChallengeError(pem, caOk, now) IN
    /\ IF err # NoError
       THEN /\ UNCHANGED <<now, challenges, nextChallenge>>
            /\ last' = Last("createChallenge", 0, Failure(err))
       ELSE /\ nextChallenge <= MaxChallenges
            /\ ReadClockAgain
            /\ challenges' = Put(challenges, nextChallenge,
                                 [challenge |-> nextChallenge,
                                  certFingerprint |-> pem.fp,
                                  createdAt |-> now,
                                  expiresAt |-> now' + CHALLENGE_EXPIRY])
            /\ nextChallenge' = nextChallenge + 1
            /\ last' = Last("createChallenge", nextChallenge,
                            Result(TRUE, NoError, pem.fp, extractUsername(pem)))
    /\ UNCHANGED <<sessions, nextSession, pending, accepted, transient, revoked, swept>>
    /\ UNCHANGED <<statsVars, identityVars>>

----------------------------------------------------------------------------
(* verifySignature: the part before the await of readFile *)

(* the synchronous checks without the comparison of the fingerprints *)
verifySignatureLookupError_NoBinding(chs, id, pem, t) ==
    IF id \notin DOMAIN chs THEN ErrNotFound
    ELSE IF ChallengeExpired(chs[id], t) THEN ErrChallengeExpired
    ELSE IF ~parseCertFromPem(pem) THEN ErrNoCert
    ELSE IF X509Throws(pem) THEN ErrThrownParse
    ELSE NoError

(* the synchronous checks without the check of expiresAt *)
verifySignatureLookupError_NoExpiry(chs, id, pem, t) ==
    IF id \notin DOMAIN chs THEN ErrNotFound
    ELSE IF ~parseCertFromPem(pem) THEN ErrNoCert
    ELSE IF X509Throws(pem) THEN ErrThrownParse
    ELSE IF pem.fp # chs[id].certFingerprint THEN ErrMismatch
    ELSE NoError

(* the fingerprints are compared before the certificate is looked for *)
verifySignatureLookupError_BindingFirst(chs, id, pem, t) ==
    IF id \notin DOMAIN chs THEN ErrNotFound
    ELSE IF ChallengeExpired(chs[id], t) THEN ErrChallengeExpired
    ELSE IF pem.fp # chs[id].certFingerprint THEN ErrMismatch
    ELSE IF ~parseCertFromPem(pem) THEN ErrNoCert
    ELSE IF X509Throws(pem) THEN ErrThrownParse
    ELSE NoError

(* the checks of verifySignature before the await; NoError when all pass *)
verifySignatureLookupError(chs, id, pem, t) ==
    IF id \notin DOMAIN chs THEN ErrNotFound
    ELSE IF ChallengeExpired(chs[id], t) THEN ErrChallengeExpired
    ELSE IF ~parseCertFromPem(pem) THEN ErrNoCert
    ELSE IF X509Throws(pem) THEN ErrThrownParse
    ELSE IF pem.fp # chs[id].certFingerprint THEN ErrMismatch
    ELSE NoError

(* a lookup that takes the entry out of the ledger *)
verifySignatureLookupLedger_Consume(chs, id, t) == Remove(chs, id)

(* the ledger after the synchronous part: only an expired entry is deleted *)
verifySignatureLookupLedger(chs, id, t) ==
    IF id \in DOMAIN chs /\ ChallengeExpired(chs[id], t) THEN Remove(chs, id) ELSE chs

VerifyStart(id, pem, sig) ==
    LET err == verifySignatureLookupError(challenges, id, pem, now) IN
    /\ challenges' = verifySignatureLookupLedger(challenges, id, now)
    /\ IF err # NoError
       THEN /\ last' = Last("verifySignature", id, Failure(err))
            /\ UNCHANGED pending
       ELSE /\ Len(pending) < MaxPending
            /\ pending' = Append(pending, [id |-> id, pem |-> pem, sig |-> sig,
                                           stored |-> challenges[id]])
            /\ UNCHANGED last
    /\ UNCHANGED <<now, sessions, nextChallenge, nextSession, accepted, transient, revoked, swept>>
    /\ UNCHANGED <<statsVars, identityVars>>

----------------------------------------------------------------------------
(* verifySignature: the part after the await of readFile *)

verifySignatureError(call, caOk) ==
    IF ~caOk THEN ErrThrownRead
    ELSE IF ~CertVerify(call.pem) THEN ErrNotSigned
    ELSE IF ~SignatureVerify(call.pem, call.stored.challenge, call.sig) THEN ErrBadSignature
    ELSE NoError

(* the used challenge is never deleted *)
verifySignatureLedger_KeepsUsed(chs, call, err) == chs

(* the challenge is deleted whatever the outcome *)
verifySignatureLedger_Always(chs, call, err) == Remove(chs, call.id)

(* the ledger when verifySignature returns: the entry is deleted on success only *)
verifySignatureLedger(chs, call, err) ==
    IF err = NoError THEN Remove(chs, call.id) ELSE chs

verifySignatureResult(call, caOk) ==
    IF verifySignatureError(call, caOk) = NoError
    THEN Result(TRUE, NoError, call.pem.fp, extractUsername(call.pem))
    ELSE Failure(verifySignatureError(call, caOk))

RemoveAt(seq, i) == SubSeq(seq, 1, i - 1) \o SubSeq(seq, i + 1, Len(seq))

(* the login-completion route: a session for a valid verifySignature result *)
CompleteLogin(res) ==
    IF res.valid THEN createSession(res.fingerprint, res.username) ELSE sessions

VerifyFinish(i, caOk) ==
    LET call == pending[i]
        res == verifySignatureResult(call, caOk)
    IN
    /\ res.valid => nextSession <= MaxSessions
    /\ IF res.valid THEN ReadClockAgain ELSE UNCHANGED now
    /\ pending' = RemoveAt(pending, i)
    /\ challenges' = verifySignatureLedger(challenges, call, res.error)
    /\ sessions' = CompleteLogin(res)
    /\ nextSession' = IF res.valid THEN nextSession + 1 ELSE nextSession
    /\ last' = Last("verifySignature", call.id, res)
    /\ accepted' = IF res.valid THEN [accepted EXCEPT ![call.id] = @ + 1] ELSE accepted
    /\ transient' = IF res.error = ErrThrownRead THEN transient \cup {call.id} ELSE transient
    /\ UNCHANGED <<nextChallenge, revoked, swept>>
    /\ UNCHANGED <<statsVars, identityVars>>

----------------------------------------------------------------------------
(* Bundle login: verifyClientKey and POST /api/auth/login *)

KeyInputs == {0, -1} \cup Keys   \* 0: no PRIVATE KEY block, -1: createPrivateKey throws

KeyHash(k) == 100 + k

MatchingFiles(k) == {i \in DOMAIN ServerCertFiles : ServerCertFiles[i].key = k}

(* findMatchingCertificate: the first file whose public key equals the key's, or null *)
findMatchingCertificate(k, dirOk) ==
    IF dirOk /\ MatchingFiles(k) # {}
    THEN ServerCertFiles[CHOOSE i \in MatchingFiles(k) : \A j \in MatchingFiles(k) : i <= j]
    ELSE NoPem

(* the checks made on a certificate once one is associated with the key *)
verifyBundleCert(cert, caOk, t) ==
    IF ~caOk THEN Failure(ErrThrownRead)
    ELSE IF ~CertVerify(cert) THEN Failure(ErrNotSigned)
    ELSE IF CertExpired(cert, t) THEN Failure(ErrCertExpired)
    ELSE Result(TRUE, NoError, cert.fp, extractUsername(cert))

verifyClientKey(k, pem, caOk, dirOk, t) ==
    IF k = 0 THEN Failure(ErrNoKey)
    ELSE IF k = -1 THEN Failure(ErrThrownParse)
    ELSE IF parseCertFromPem(pem)
         THEN IF X509Throws(pem) THEN Failure(ErrThrownParse)
              ELSE verifyBundleCert(pem, caOk, t)
    ELSE IF findMatchingCertificate(k, dirOk) # NoPem
         THEN verifyBundleCert(findMatchingCertificate(k, dirOk), caOk, t)
    ELSE Result(TRUE, NoError, KeyHash(k), Null)

ErrNoCredentials == "Client credentials file is required"

NoBody == -2   \* the request body carries no key field

LoginKeys == KeyInputs \cup {NoBody}

StatusOk == 200

StatusBadRequest == 400

StatusUnauthorized == 401

(* router.post('/login'): the status and the result the route answers with *)
loginRoute(k, pem, caOk, dirOk, t) ==
    IF k = NoBody
    THEN [status |-> StatusBadRequest, result |-> Failure(ErrNoCredentials)]
    ELSE LET res == verifyClientKey(k, pem, caOk, dirOk, t) IN
         [status |-> IF res.valid THEN StatusOk ELSE StatusUnauthorized, result |-> res]

Login(k, pem, caOk, dirOk) ==
    LET res == loginRoute(k, pem, caOk, dirOk, now).result IN
    /\ res.valid => nextSession <= MaxSessions
    /\ IF res.valid THEN ReadClockAgain ELSE UNCHANGED now
    /\ sessions' = IF res.valid
                   THEN createSession(res.fingerprint, res.username)
                   ELSE sessions
    /\ nextSession' = IF res.valid THEN nextSession + 1 ELSE nextSession
    /\ last' = Last("login", 0, res)
    /\ UNCHANGED <<challenges, nextChallenge, pending, accepted, transient, revoked, swept>>
    /\ UNCHANGED <<statsVars, identityVars>>

----------------------------------------------------------------------------
(* Cookies, session lookup and gating *)

LoginCookieName == "nats-eyes-session"

CookieNames == {LoginCookieName, "natsable-session"}

(* the value 0 is the empty text; MaxSessions + 1 is an id never issued *)
CookieValues == 0 .. MaxSessions + 1

NoCookieHeader == [name |-> "", value |-> 0]

CookieHeader(name, value) == [name |-> name, value |-> value]

CookieHeaders == {NoCookieHeader} \cup [name : CookieNames, value : CookieValues]

(* the Set-Cookie header of a successful login *)
LoginCookie(sessionId) == CookieHeader(LoginCookieName, sessionId)

(* parseCookies: name -> value; a name that is not in the header reads as   *)
(* undefined, which is falsy as the empty text is                          *)
parseCookies(header) ==
    [n \in CookieNames |-> IF header.name = n THEN header.value ELSE 0]

NoSession == [id |-> 0, keyFingerprint |-> 0, username |-> Null,
              createdAt |-> 0, expiresAt |-> 0]

(* a lookup that does not look at expiresAt *)
getSession_NoExpiry(ss, sessionId, t) ==
    IF sessionId \notin DOMAIN ss THEN NoSession ELSE ss[sessionId]

(* getSession: what it returns, null as NoSession *)
getSession(ss, sessionId, t) ==
    IF sessionId \notin DOMAIN ss THEN NoSession
    ELSE IF t > ss[sessionId].expiresAt THEN NoSession
    ELSE ss[sessionId]

(* getSession: the store it leaves *)
getSessionLedger(ss, sessionId, t) ==
    IF sessionId \in DOMAIN ss /\ t > ss[sessionId].expiresAt
    THEN Remove(ss, sessionId)
    ELSE ss

(* a deletion that takes every session of the same fingerprint with it *)
deleteSession_ByFingerprint(ss, sessionId) ==
    IF sessionId \in DOMAIN ss
    THEN [k \in {j \in DOMAIN ss : ss[j].keyFingerprint # ss[sessionId].keyFingerprint}
            |-> ss[k]]
    ELSE ss

deleteSession(ss, sessionId) == Remove(ss, sessionId)

(* request paths, by segment *)
Paths == {<<"api", "auth", "login">>, <<"api", "auth", "logout">>,
          <<"api", "auth", "session">>, <<"api", "auth", "challenge">>,
          <<"api", "health">>, <<"index.html">>, <<"api", "nats", "status">>}

(* the two versions of authMiddleware: the cookie read and the paths let by *)
BundleAuth ==
    [cookie |-> "nats-eyes-session",
     exempt |-> {<<"api", "auth", "login">>, <<"api", "auth", "logout">>,
                 <<"api", "auth", "session">>, <<"api", "health">>}]

ChallengeAuth ==
    [cookie |-> "natsable-session",
     exempt |-> {<<"api", "auth", "login">>, <<"api", "auth", "logout">>,
                 <<"api", "auth", "session">>, <<"api", "auth", "challenge">>,
                 <<"api", "health">>}]

AuthVersions == {BundleAuth, ChallengeAuth}

(* req.path.startsWith('/api/') *)
IsApiPath(path) == Len(path) >= 2 /\ path[1] = "api"

Protected(v, path) == path \notin v.exempt /\ IsApiPath(path)

Response(next, status, error, session) ==
    [next |-> next, status |-> status, error |-> error, session |-> session]

ErrNotAuthenticated == "Not authenticated"
ErrSessionInvalid == "Session expired or invalid"
(* a middleware that lets every request with a cookie value through *)
authMiddleware_AnyCookie(v, path, header, ss, t) ==
    IF ~Protected(v, path) THEN Response(TRUE, 0, NoError, NoSession)
    ELSE IF parseCookies(header)[v.cookie] = 0
         THEN Response(FALSE, StatusUnauthorized, ErrNotAuthenticated, NoSession)
    ELSE Response(TRUE, 0, NoError, NoSession)

(* a middleware that answers an expired session with a message of its own *)
authMiddleware_TellsExpired(v, path, header, ss, t) ==
    IF ~Protected(v, path) THEN Response(TRUE, 0, NoError, NoSession)
    ELSE IF parseCookies(header)[v.cookie] = 0
         THEN Response(FALSE, StatusUnauthorized, ErrNotAuthenticated, NoSession)
    ELSE IF parseCookies(header)[v.cookie] \notin DOMAIN ss
         THEN Response(FALSE, StatusUnauthorized, ErrSessionInvalid, NoSession)
    ELSE IF t > ss[parseCookies(header)[v.cookie]].expiresAt
         THEN Response(FALSE, StatusUnauthorized, "Session expired", NoSession)
    ELSE Response(TRUE, 0, NoError, ss[parseCookies(header)[v.cookie]])

(* authMiddleware: next() or the response sent *)
authMiddleware(v, path, header, ss, t) ==
    IF ~Protected(v, path) THEN Response(TRUE, 0, NoError, NoSession)
    ELSE IF parseCookies(header)[v.cookie] = 0
         THEN Response(FALSE, StatusUnauthorized, ErrNotAuthenticated, NoSession)
    ELSE IF getSession(ss, parseCookies(header)[v.cookie], t) = NoSession
         THEN Response(FALSE, StatusUnauthorized, ErrSessionInvalid, NoSession)
    ELSE Response(TRUE, 0, NoError, getSession(ss, parseCookies(header)[v.cookie], t))

(* the session is looked up before the path is tested *)
authMiddlewareLedger_Eager(v, path, header, ss, t) ==
    IF parseCookies(header)[v.cookie] # 0
    THEN getSessionLedger(ss, parseCookies(header)[v.cookie], t)
    ELSE ss

(* authMiddleware: the session store it leaves *)
authMiddlewareLedger(v, path, header, ss, t) ==
    IF Protected(v, path) /\ parseCookies(header)[v.cookie] # 0
    THEN getSessionLedger(ss, parseCookies(header)[v.cookie], t)
    ELSE ss

(* a request passes through authMiddleware *)
Gate(v, path, header) ==
    LET res == authMiddleware(v, path, header, sessions, now) IN
    /\ sessions' = authMiddlewareLedger(v, path, header, sessions, now)
    /\ last' = Last("authMiddleware",
                    IF Protected(v, path) THEN parseCookies(header)[v.cookie] ELSE 0,
                    Result(res.next, res.error, 0, Null))
    /\ UNCHANGED <<now, challenges, nextChallenge, nextSession, pending, accepted,
                   transient, revoked, swept>>
    /\ UNCHANGED <<statsVars, identityVars>>

(* a logout that only clears the cookie *)
logoutLedger_Keeps(header, ss) == ss

(* a logout that also purges the expired sessions *)
logoutLedger_PurgesExpired(header, ss) ==
    [k \in {j \in DOMAIN ss \ {parseCookies(header)[LoginCookieName]} :
                ~(now > ss[j].expiresAt)} |-> ss[k]]

(* POST /api/auth/logout: the store it leaves *)
logoutLedger(header, ss) ==
    IF parseCookies(header)[LoginCookieName] # 0
    THEN deleteSession(ss, parseCookies(header)[LoginCookieName])
    ELSE ss

Logout(header) ==
    LET sessionId == parseCookies(header)[LoginCookieName] IN
    /\ sessions' = logoutLedger(header, sessions)
    /\ revoked' = IF sessionId \in DOMAIN sessions
                  THEN revoked \cup {[id |-> sessionId,
                                      keyFingerprint |-> sessions[sessionId].keyFingerprint]}
                  ELSE revoked
    /\ last' = Last("logout", sessionId, Result(TRUE, NoError, 0, Null))
    /\ UNCHANGED <<now, challenges, nextChallenge, nextSession, pending, accepted,
                   transient, swept>>
    /\ UNCHANGED <<statsVars, identityVars>>

(* GET /api/auth/session: authenticated, and the session reported *)
sessionCheck(header, ss, t) ==
    IF parseCookies(header)[LoginCookieName] = 0 THEN NoSession
    ELSE getSession(ss, parseCookies(header)[LoginCookieName], t)

sessionCheckLedger(header, ss, t) ==
    IF parseCookies(header)[LoginCookieName] # 0
    THEN getSessionLedger(ss, parseCookies(header)[LoginCookieName], t)
    ELSE ss

SessionCheck(header) ==
    /\ sessions' = sessionCheckLedger(header, sessions, now)
    /\ last' = Last("session", parseCookies(header)[LoginCookieName],
                    Result(sessionCheck(header, sessions, now) # NoSession, NoError, 0, Null))
    /\ UNCHANGED <<now, challenges, nextChallenge, nextSession, pending, accepted,
                   transient, revoked, swept>>
    /\ UNCHANGED <<statsVars, identityVars>>

----------------------------------------------------------------------------
(* The periodic cleanup and the clock *)

(* the cleanup removes an entry already at the instant of its expiry *)
Sweep_AtExpiry ==
    /\ sessions' = [k \in {j \in DOMAIN sessions : ~(now >= sessions[j].expiresAt)}
                      |-> sessions[k]]
    /\ challenges' = [k \in {j \in DOMAIN challenges : ~(now >= challenges[j].expiresAt)}
                        |-> challenges[k]]
    /\ swept' = swept \cup {j \in DOMAIN challenges : now >= challenges[j].expiresAt}
    /\ UNCHANGED <<now, nextChallenge, nextSession, pending, last, accepted, transient, revoked>>
    /\ UNCHANGED <<statsVars, identityVars>>

Sweep ==
    /\ sessions' = [k \in {j \in DOMAIN sessions : ~(now > sessions[j].expiresAt)}
                      |-> sessions[k]]
    /\ challenges' = [k \in {j \in DOMAIN challenges : ~(now > challenges[j].expiresAt)}
                        |-> challenges[k]]
    /\ swept' = swept \cup {j \in DOMAIN challenges : now > challenges[j].expiresAt}
    /\ UNCHANGED <<now, nextChallenge, nextSession, pending, last, accepted, transient, revoked>>
    /\ UNCHANGED <<statsVars, identityVars>>

Tick(d) ==
    /\ InHorizon(now + d)
    /\ now' = now + d
    /\ UNCHANGED <<challenges, sessions, nextChallenge, nextSession, pending, last, accepted, transient, revoked, swept>>
    /\ UNCHANGED <<statsVars, identityVars>>

----------------------------------------------------------------------------

AuthInit ==
    /\ now = 0
    /\ challenges = EmptyMap
    /\ sessions = EmptyMap
    /\ nextChallenge = 1
    /\ nextSession = 1
    /\ pending = <<>>
    /\ last = Last("none", 0, Failure(NoError))
    /\ accepted = [id \in ChallengeIds |-> 0]
    /\ transient = {}
    /\ revoked = {}
    /\ swept = {}

StatsInit ==
    /\ isRunning = FALSE
    /\ collectionTimer = 0
    /\ cleanupTimer = 0
    /\ timers = EmptyMap
    /\ nextTimer = 1
    /\ dataPoints = <<>>
    /\ collecting = [fetch |-> 0, json |-> 0]

Init ==
    /\ AuthInit
    /\ StatsInit
    /\ certSubject = <<>>
    /\ extracted = Null

(* The challenge protocol: challenge issuance, login completion, cleanup *)
Next ==
    \/ \E pem \in PemInputs, caOk \in BOOLEAN : CreateChallenge(pem, caOk)
    \/ \E id \in ChallengeIds, pem \in PemInputs, sig \in Signatures :
          VerifyStart(id, pem, sig)
    \/ \E i \in DOMAIN pending, caOk \in BOOLEAN : VerifyFinish(i, caOk)
    \/ Sweep
    \/ \E d \in ChallengeSteps : Tick(d)

Spec == Init /\ [][Next]_vars

(* StatsCollector *)
MAX_AGE_MS == 24 * 60 * 60 * 1000

(* the clock steps of the collector *)
StatsSteps == {1, MAX_AGE_MS}

(* a DataPoint; its other fields are measurements copied from the answer of *)
(* the monitoring endpoint                                                  *)
DataPoint(t) == [timestamp |-> t]

(* the new point is put in front *)
pushDataPoint_Front(dps, dp) == <<dp>> \o dps

(* this.dataPoints.push(dataPoint) *)
pushDataPoint(dps, dp) == Append(dps, dp)

KeepFrom(dps, cutoff, i) == dps[i].timestamp >= cutoff

RECURSIVE Filter(_, _, _)
Filter(dps, cutoff, i) ==
    IF i > Len(dps) THEN <<>>
    ELSE IF KeepFrom(dps, cutoff, i) THEN <<dps[i]>> \o Filter(dps, cutoff, i + 1)
    ELSE Filter(dps, cutoff, i + 1)

(* cleanup: the points not older than MAX_AGE_MS, in their order *)
cleanup(dps, t) == Filter(dps, t - MAX_AGE_MS, 1)

getSummary(dps, running) ==
    [dataPoints |-> Len(dps),
     oldestTimestamp |-> IF Len(dps) > 0 THEN dps[1].timestamp ELSE Null,
     newestTimestamp |-> IF Len(dps) > 0 THEN dps[Len(dps)].timestamp ELSE Null,
     isRunning |-> running]

(* collect() up to its first await: the two fetches are under way *)
collectStart(c) == [c EXCEPT !.fetch = @ + 1]

Collects == collecting.fetch + collecting.json

(* start() without the test of isRunning *)
Start_Unguarded ==
    /\ nextTimer + 1 <= MaxTimers
    /\ Collects < MaxCollects
    /\ isRunning' = TRUE
    /\ collecting' = collectStart(collecting)
    /\ collectionTimer' = nextTimer
    /\ cleanupTimer' = nextTimer + 1
    /\ timers' = Put(Put(timers, nextTimer, "collect"), nextTimer + 1, "cleanup")
    /\ nextTimer' = nextTimer + 2
    /\ UNCHANGED <<dataPoints, authVars, identityVars>>

Start ==
    IF isRunning
    THEN UNCHANGED vars
    ELSE /\ nextTimer + 1 <= MaxTimers
         /\ Collects < MaxCollects
         /\ isRunning' = TRUE
         /\ collecting' = collectStart(collecting)
         /\ collectionTimer' = nextTimer
         /\ cleanupTimer' = nextTimer + 1
         /\ timers' = Put(Put(timers, nextTimer, "collect"), nextTimer + 1, "cleanup")
         /\ nextTimer' = nextTimer + 2
         /\ UNCHANGED <<dataPoints, authVars, identityVars>>

(* clearInterval of a timer that is held *)
clearInterval(ts, id) == IF id # 0 THEN Remove(ts, id) ELSE ts

Stop ==
    IF ~isRunning
    THEN UNCHANGED vars
    ELSE /\ isRunning' = FALSE
         /\ timers' = clearInterval(clearInterval(timers, collectionTimer), cleanupTimer)
         /\ collectionTimer' = 0
         /\ cleanupTimer' = 0
         /\ UNCHANGED <<nextTimer, dataPoints, collecting, authVars, identityVars>>

(* the collection interval fires: collect() is called *)
CollectTimer(id) ==
    /\ id \in DOMAIN timers
    /\ timers[id] = "collect"
    /\ Collects < MaxCollects
    /\ collecting' = collectStart(collecting)
    /\ UNCHANGED <<isRunning, collectionTimer, cleanupTimer, timers, nextTimer, dataPoints,
                   authVars, identityVars>>

(* the cleanup interval fires: cleanup() runs *)
CleanupTimer(id) ==
    /\ id \in DOMAIN timers
    /\ timers[id] = "cleanup"
    /\ dataPoints' = cleanup(dataPoints, now)
    /\ UNCHANGED <<isRunning, collectionTimer, cleanupTimer, timers, nextTimer, collecting,
                   authVars, identityVars>>

(* collect(): the fetches are settled; it goes on to read the body when    *)
(* both answers are ok, and returns otherwise                              *)
CollectFetched(ok) ==
    /\ collecting.fetch > 0
    /\ collecting' = IF ok
                     THEN [fetch |-> collecting.fetch - 1, json |-> collecting.json + 1]
                     ELSE [collecting EXCEPT !.fetch = @ - 1]
    /\ UNCHANGED <<isRunning, collectionTimer, cleanupTimer, timers, nextTimer, dataPoints,
                   authVars, identityVars>>

(* collect(): the body is read; the point is stamped and pushed, or the    *)
(* error of the parse is swallowed                                         *)
CollectParsed(ok) ==
    /\ collecting.json > 0
    /\ ok => Len(dataPoints) < MaxPoints
    /\ collecting' = [collecting EXCEPT !.json = @ - 1]
    /\ dataPoints' = IF ok THEN pushDataPoint(dataPoints, DataPoint(now)) ELSE dataPoints
    /\ UNCHANGED <<isRunning, collectionTimer, cleanupTimer, timers, nextTimer,
                   authVars, identityVars>>

StatsNext ==
    \/ Start
    \/ Stop
    \/ \E id \in 1 .. MaxTimers : CollectTimer(id)
    \/ \E id \in 1 .. MaxTimers : CleanupTimer(id)
    \/ \E ok \in BOOLEAN : CollectFetched(ok)
    \/ \E ok \in BOOLEAN : CollectParsed(ok)
    \/ \E d \in StatsSteps : Tick(d)

StatsSpec == Init /\ [][StatsNext]_vars

(* extractUsername applied to the subjects of certificates *)
NotExtracted == "not extracted"

SubjectAttrs == [k : {"CN", "emailAddress", "O"}, v : {"alice", "bob"}]

Subjects == UNION {[1 .. n -> SubjectAttrs] : n \in 0 .. MaxAttrs}

ExtractUsername ==
    /\ extracted = NotExtracted
    /\ extracted' = extractUsername([subject |-> certSubject])
    /\ UNCHANGED <<authVars, statsVars, certSubject>>

IdentityInit ==
    /\ AuthInit
    /\ StatsInit
    /\ certSubject \in Subjects
    /\ extracted = NotExtracted

IdentityNext == ExtractUsername

IdentitySpec == IdentityInit /\ [][IdentityNext]_vars

(* The session ledger under the bundle login *)
SessionNext ==
    \/ \E k \in LoginKeys, pem \in PemInputs, caOk \in BOOLEAN, dirOk \in BOOLEAN :
          Login(k, pem, caOk, dirOk)
    \/ \E v \in AuthVersions, path \in Paths, header \in CookieHeaders :
          Gate(v, path, header)
    \/ \E header \in CookieHeaders : Logout(header)
    \/ \E header \in CookieHeaders : SessionCheck(header)
    \/ Sweep
    \/ \E d \in SessionSteps : Tick(d)

SessionSpec == Init /\ [][SessionNext]_vars

----------------------------------------------------------------------------
(* Properties of the challenge protocol *)

Consumed == {id \in ChallengeIds : accepted[id] > 0}

Live(id) == id \in DOMAIN challenges /\ now <= challenges[id].expiresAt

Rejected(id, error) == Last("verifySignature", id, Failure(error))

(* C1: single use.  Once verifySignature has returned valid for a          *)
(* challengeId, the challenge is gone from the ledger, and a login         *)
(* completion with that challengeId is answered "Challenge not found or    *)
(* expired" whatever certificate is submitted with it.                     *)
C1_SingleUse ==
    \A id \in Consumed :
        /\ id \notin DOMAIN challenges
        /\ \A pem \in PemInputs :
               verifySignatureLookupError(challenges, id, pem, now) = ErrNotFound

(* a completion has been answered not-found for a challengeId accepted before *)
C1_Witness ==
    /\ last = Rejected(last.id, ErrNotFound)
    /\ last.id \in Consumed

(* C2: for every challengeId at most one verifySignature call returns valid, *)
(* overlapping calls included.                                               *)
C2_AtMostOneSuccess == \A id \in ChallengeIds : accepted[id] <= 1

(* C3: every step that adds a session for fingerprint F is the return of a *)
(* verifySignature call whose signature verifies, under the key of the     *)
(* submitted certificate with fingerprint F, over the nonce of the         *)
(* challenge bound to F.                                                   *)
C3_SessionOnlyAfterProof ==
    [][\A s \in DOMAIN sessions' \ DOMAIN sessions :
          \E i \in DOMAIN pending :
             /\ pending' = RemoveAt(pending, i)
             /\ pending[i].pem.fp = sessions'[s].keyFingerprint
             /\ pending[i].stored.certFingerprint = sessions'[s].keyFingerprint
             /\ pending[i].sig.key = pending[i].pem.key
             /\ pending[i].sig.msg = pending[i].stored.challenge]_vars

(* C4: fingerprint binding.  In every state, a login completion on a live  *)
(* challenge with a certificate whose fingerprint differs from the bound   *)
(* one is answered "Certificate mismatch" in the synchronous part, before  *)
(* the signature is looked at; hence no call that awaits the signature     *)
(* check, the only source of a valid result, carries another certificate   *)
(* than the bound one.                                                     *)
C4_FingerprintBinding ==
    /\ \A id \in ChallengeIds, pem \in Certs :
          (Live(id) /\ pem.fp # challenges[id].certFingerprint)
          => verifySignatureLookupError(challenges, id, pem, now) = ErrMismatch
    /\ \A i \in DOMAIN pending :
          pending[i].pem.fp = pending[i].stored.certFingerprint

(* a mismatch was reported for a challenge that is still live *)
C4_Witness ==
    /\ last = Rejected(last.id, ErrMismatch)
    /\ Live(last.id)

Untrusted == {c \in Certs : ~c.signedByCA}

(* C5: trust boundary.  In every state, createChallenge returns an error   *)
(* for a certificate not signed by the CA, whether or not ca.crt can be    *)
(* read, so no challenge in the ledger is bound to such a certificate; and *)
(* verifySignature returns invalid for it, in the synchronous part or,     *)
(* for a call that awaits the CA check, when it returns.                   *)
C5_TrustBoundary ==
    /\ \A pem \in Untrusted, caOk \in BOOLEAN :
          createChallengeError(pem, caOk, now) # NoError
    /\ \A id \in DOMAIN challenges, pem \in Untrusted :
          challenges[id].certFingerprint # pem.fp
    /\ \A id \in ChallengeIds, pem \in Untrusted :
          verifySignatureLookupError(challenges, id, pem, now) # NoError
    /\ \A i \in DOMAIN pending, caOk \in BOOLEAN :
          pending[i].pem \in Untrusted => ~verifySignatureResult(pending[i], caOk).valid

(* createChallenge has rejected a certificate as not signed by the CA *)
C5_Witness ==
    /\ last.op = "createChallenge"
    /\ last.error = ErrNotSigned
    /\ ~last.valid

(* C6: challenge expiry.  In every state, for an entry of the ledger whose *)
(* expiresAt has passed (no sweep has removed it), a login completion is   *)
(* answered "Challenge expired" whatever the certificate, and the entry is *)
(* removed by that lookup.                                                 *)
C6_ChallengeExpiry ==
    \A id \in DOMAIN challenges :
        now > challenges[id].expiresAt
        => /\ \A pem \in PemInputs :
                 verifySignatureLookupError(challenges, id, pem, now) = ErrChallengeExpired
           /\ id \notin DOMAIN verifySignatureLookupLedger(challenges, id, now)

(* a completion was rejected as expired, more than 60 s after issuance,    *)
(* and the lookup removed the entry                                        *)
C6_Witness ==
    /\ last = Rejected(last.id, ErrChallengeExpired)
    /\ last.id \notin DOMAIN challenges
    /\ now > CHALLENGE_EXPIRY

(* C7: login completion re-checks certificate expiry: a verifySignature    *)
(* call that returns when the certificate's notAfter has passed is         *)
(* rejected and no session is issued.                                      *)
C7_RechecksCertExpiry ==
    [][\A i \in DOMAIN pending, caOk \in BOOLEAN :
          (now > pending[i].pem.validTo /\ VerifyFinish(i, caOk))
          => /\ ~last'.valid
             /\ sessions' = sessions]_vars

CertOf(fp) == CHOOSE c \in Certs : c.fp = fp

(* C8: temporal validity.  Every challenge in the ledger was issued at a   *)
(* time within [notBefore, notAfter] of the certificate it is bound to.    *)
C8_IssuedWithinValidity ==
    \A id \in DOMAIN challenges :
        /\ CertOf(challenges[id].certFingerprint).validFrom <= challenges[id].createdAt
        /\ challenges[id].createdAt <= CertOf(challenges[id].certFingerprint).validTo

(* C9 as claimed: after verifySignature has returned "Certificate          *)
(* mismatch" or "Invalid signature" for a challengeId, the challenge is    *)
(* consumed: it is no longer in the ledger.                                *)
C9_InvalidDecisionConsumes ==
    (last.op = "verifySignature" /\ last.error \in {ErrMismatch, ErrBadSignature})
    => last.id \notin DOMAIN challenges

(* C9 as amended: a verifySignature call that ends in "Certificate         *)
(* mismatch" or "Invalid signature" leaves the challenge ledger unchanged; *)
(* an entry leaves the ledger only in a step in which a call for its id    *)
(* returns valid, or when its expiresAt has passed.                        *)
C9_KeptInState ==
    /\ \A id \in ChallengeIds, pem \in PemInputs :
          verifySignatureLookupError(challenges, id, pem, now) = ErrMismatch
          => verifySignatureLookupLedger(challenges, id, now) = challenges
    /\ \A i \in DOMAIN pending, caOk \in BOOLEAN :
          verifySignatureError(pending[i], caOk) = ErrBadSignature
          => verifySignatureLedger(challenges, pending[i], ErrBadSignature) = challenges

C9_RemovedOnlyBy ==
    \A id \in DOMAIN challenges \ DOMAIN challenges' :
        \/ accepted'[id] = accepted[id] + 1
        \/ now > challenges[id].expiresAt

(* C9 as amended, both parts: the invalid decisions keep the ledger, and   *)
(* only acceptance or expiry removes an entry                              *)
C9_InvalidDecisionKeeps == [](C9_KeptInState) /\ [][C9_RemovedOnlyBy]_vars

(* an invalid decision was returned and the challenge is still live *)
C9_Witness ==
    /\ last.op = "verifySignature"
    /\ last.error \in {ErrMismatch, ErrBadSignature}
    /\ Live(last.id)

(* C10: transient failure keeps the challenge.  While a verifySignature    *)
(* call awaits the read of ca.crt its challenge stays in the ledger as it  *)
(* was, unless a call for it was accepted or its expiresAt passed; a call  *)
(* that cannot read ca.crt returns that error, issues no session and       *)
(* leaves the ledger unchanged; a completion on a live challenge with the  *)
(* bound certificate passes the synchronous checks; and a pending call     *)
(* whose signature is the bound key's signature of the nonce returns valid *)
(* when ca.crt is read.                                                    *)
C10_KeptInState ==
    /\ \A i \in DOMAIN pending :
          (accepted[pending[i].id] = 0 /\ now <= pending[i].stored.expiresAt)
          => /\ pending[i].id \in DOMAIN challenges
             /\ challenges[pending[i].id] = pending[i].stored
    /\ \A id \in ChallengeIds, pem \in Certs :
          (Live(id) /\ pem.fp = challenges[id].certFingerprint)
          => verifySignatureLookupError(challenges, id, pem, now) = NoError
    /\ \A i \in DOMAIN pending :
          BufferFromBase64(pending[i].sig)
             = [key |-> pending[i].pem.key, msg |-> pending[i].stored.challenge]
          => verifySignatureResult(pending[i], TRUE).valid

C10_FailedRead ==
    \A i \in DOMAIN pending :
        VerifyFinish(i, FALSE)
        => /\ challenges' = challenges
           /\ sessions' = sessions
           /\ last' = Rejected(pending[i].id, ErrThrownRead)

(* C10, both parts: the challenge is kept while and after the read of     *)
(* ca.crt fails, and the retry with the bound certificate is accepted      *)
C10_TransientKeeps == [](C10_KeptInState) /\ [][C10_FailedRead]_vars

(* a completion was accepted for a challengeId after a call for it had     *)
(* failed to read ca.crt                                                   *)
C10_Witness ==
    /\ last.op = "verifySignature"
    /\ last.valid
    /\ last.id \in transient

----------------------------------------------------------------------------
(* The order of the checks of a login completion *)

(* the checks, each on its own *)
FailsLookup(chs, id, t) == id \notin DOMAIN chs \/ t > chs[id].expiresAt

FailsParse(pem) == pem.form \in {"none", "malformed"}

FailsBinding(chs, id, pem) == pem.fp # chs[id].certFingerprint

FailsTrust(pem, caOk) == ~caOk \/ ~pem.signedByCA

FailsSignature(call) ==
    BufferFromBase64(call.sig) # [key |-> call.pem.key, msg |-> call.stored.challenge]

(* C11 as claimed: the re-validation against the trust anchor comes before *)
(* the comparison of the fingerprints, so a completion on a live challenge *)
(* with a certificate that is not signed by the CA is never answered       *)
(* "Certificate mismatch".                                                 *)
C11_TrustBeforeBinding ==
    \A id \in ChallengeIds, pem \in Untrusted :
        Live(id) => verifySignatureLookupError(challenges, id, pem, now) # ErrMismatch

(* C11 as amended: the outcome of a login completion is the error of the   *)
(* first failing check in the order (a) challenge lookup, (b) a parsable   *)
(* certificate is submitted, (c) fingerprint equality, (d) ca.crt is read  *)
(* and the certificate verifies under it, (e) signature verification.      *)
C11_OrderInState ==
    /\ \A id \in ChallengeIds, pem \in PemInputs :
          LET err == verifySignatureLookupError(challenges, id, pem, now) IN
          /\ err \in {ErrNotFound, ErrChallengeExpired} <=> FailsLookup(challenges, id, now)
          /\ err \in {ErrNoCert, ErrThrownParse}
                <=> (~FailsLookup(challenges, id, now) /\ FailsParse(pem))
          /\ err = ErrMismatch
                <=> /\ ~FailsLookup(challenges, id, now)
                    /\ ~FailsParse(pem)
                    /\ FailsBinding(challenges, id, pem)
    /\ \A i \in DOMAIN pending, caOk \in BOOLEAN :
          LET err == verifySignatureError(pending[i], caOk) IN
          /\ ~FailsParse(pending[i].pem)
          /\ pending[i].pem.fp = pending[i].stored.certFingerprint
          /\ err \in {ErrThrownRead, ErrNotSigned} <=> FailsTrust(pending[i].pem, caOk)
          /\ err = ErrBadSignature
                <=> (~FailsTrust(pending[i].pem, caOk) /\ FailsSignature(pending[i]))

(* only when every check passes is the challenge deleted and valid returned *)
C11_DeletedOnSuccess ==
    \A i \in DOMAIN pending, caOk \in BOOLEAN :
        VerifyFinish(i, caOk)
        => /\ last'.valid <=> (~FailsTrust(pending[i].pem, caOk) /\ ~FailsSignature(pending[i]))
           /\ last'.valid => pending[i].id \notin DOMAIN challenges'
           /\ ~last'.valid => challenges' = challenges

(* C11 as amended, both parts: the order of the checks, and the deletion   *)
(* of the challenge on success only                                        *)
C11_FirstFailingCheck == [](C11_OrderInState) /\ [][C11_DeletedOnSuccess]_vars

(* a completion passed the lookup, the binding and the CA check and was    *)
(* rejected for its signature                                              *)
C11_Witness ==
    /\ last = Rejected(last.id, ErrBadSignature)
    /\ last.id \in DOMAIN challenges
    /\ accepted[last.id] = 0

----------------------------------------------------------------------------
(* Properties of the session ledger and of gating *)

LiveSession(id) == id \in DOMAIN sessions /\ now <= sessions[id].expiresAt

(* C12: gating safety.  In every state and for every request to a          *)
(* protected /api/ path, authMiddleware calls next() exactly when the      *)
(* cookie it reads names a session that is in the ledger and not past its  *)
(* expiresAt; otherwise it sends 401 and does not call next().             *)
C12_GateInState ==
    \A v \in AuthVersions, path \in Paths, header \in CookieHeaders :
        Protected(v, path)
        => LET res == authMiddleware(v, path, header, sessions, now) IN
           /\ res.next <=> LiveSession(parseCookies(header)[v.cookie])
           /\ res.next => res.session = sessions[parseCookies(header)[v.cookie]]
           /\ ~res.next => res.status = StatusUnauthorized

(* every request that was let through a protected path named a live session *)
C12_Admitted ==
    (last' # last /\ last'.op = "authMiddleware" /\ last'.valid /\ last'.id # 0)
    => LiveSession(last'.id) /\ sessions' = sessions

(* C12, both parts: the decision of authMiddleware in every state, and the *)
(* state in which a request was let through                                *)
C12_GatingSafety == [](C12_GateInState) /\ [][C12_Admitted]_vars

(* a request with the cookie of a live session was let through on the day  *)
(* after login                                                             *)
C12_Witness ==
    /\ last.op = "authMiddleware"
    /\ last.valid
    /\ LiveSession(last.id)
    /\ now > sessions[last.id].createdAt + 1

ExpiredSessions == {id \in DOMAIN sessions : now > sessions[id].expiresAt}

UnknownSessions == {id \in CookieValues \ {0} : id \notin DOMAIN sessions}

(* C13 as claimed: the response to a request without a session cookie, and *)
(* the response to one with an unknown session id, are the response to a   *)
(* request whose session has expired.                                      *)
C13_SameAsExpired ==
    \A v \in AuthVersions, path \in Paths, e \in ExpiredSessions :
        Protected(v, path)
        => /\ authMiddleware(v, path, NoCookieHeader, sessions, now)
                = authMiddleware(v, path, CookieHeader(v.cookie, e), sessions, now)
           /\ \A u \in UnknownSessions :
                 authMiddleware(v, path, CookieHeader(v.cookie, u), sessions, now)
                    = authMiddleware(v, path, CookieHeader(v.cookie, e), sessions, now)

(* C13 as amended: the response to a request with an unknown session id is *)
(* the response to one whose session has expired, 401 "Session expired or  *)
(* invalid"; a request without a session cookie is answered 401 as well,   *)
(* with the body "Not authenticated".                                      *)
C13_UnknownAsExpired ==
    \A v \in AuthVersions, path \in Paths :
        Protected(v, path)
        => /\ authMiddleware(v, path, NoCookieHeader, sessions, now)
                = Response(FALSE, StatusUnauthorized, ErrNotAuthenticated, NoSession)
           /\ \A id \in ExpiredSessions \cup UnknownSessions :
                 authMiddleware(v, path, CookieHeader(v.cookie, id), sessions, now)
                    = Response(FALSE, StatusUnauthorized, ErrSessionInvalid, NoSession)

(* a request was answered "Session expired or invalid" for a session that  *)
(* was issued and never revoked: it had expired                            *)
C13_Witness ==
    /\ last.op = "authMiddleware"
    /\ last.error = ErrSessionInvalid
    /\ last.id \in 1 .. nextSession - 1
    /\ \A r \in revoked : r.id # last.id

RevokedIds == {r.id : r \in revoked}

(* C14: the cookie set by login is the cookie gating reads.  In every      *)
(* state, a request to a protected /api/ path that carries the cookie as   *)
(* the login response set it is let through by authMiddleware for every    *)
(* session of the ledger that is not past its expiresAt; and a session     *)
(* leaves the ledger only by logout or once its expiresAt has passed.      *)
C14_AdmittedInState ==
    \A v \in AuthVersions, path \in Paths, id \in DOMAIN sessions :
        (Protected(v, path) /\ now <= sessions[id].expiresAt)
        => authMiddleware(v, path, LoginCookie(id), sessions, now).next

C14_RemovedOnlyBy ==
    \A id \in DOMAIN sessions \ DOMAIN sessions' :
        id \in RevokedIds' \/ now > sessions[id].expiresAt

C14_LoginCookieAdmitted == [](C14_AdmittedInState) /\ [][C14_RemovedOnlyBy]_vars

(* C15: logout is final.  In every state, a session id that logout removed *)
(* is not in the ledger: the session check answers authenticated: false    *)
(* for it and authMiddleware answers 401, under whichever cookie name.     *)
C15_RevokedStaysInvalid ==
    \A id \in RevokedIds :
        /\ id \notin DOMAIN sessions
        /\ sessionCheck(LoginCookie(id), sessions, now) = NoSession
        /\ \A v \in AuthVersions, path \in Paths, name \in CookieNames :
              Protected(v, path)
              => LET res == authMiddleware(v, path, CookieHeader(name, id), sessions, now) IN
                 ~res.next /\ res.status = StatusUnauthorized

(* after a logout and a later login, the session check has answered        *)
(* authenticated: false for the session that logout removed                *)
C15_Witness ==
    /\ last.op = "session"
    /\ ~last.valid
    /\ last.id \in RevokedIds
    /\ DOMAIN sessions # {}

(* C16: session independence.  No step changes the record of a session     *)
(* that stays in the ledger; a login adds one record under a fresh id and  *)
(* keeps every other; a logout removes at most the session its cookie      *)
(* names (the step that adds it to revoked removes that session alone);    *)
(* so a live session of the fingerprint of a revoked one is still returned *)
(* by getSession and let through by gating.                                *)
C16_OthersValid ==
    \A id \in DOMAIN sessions :
        LiveSession(id)
        => /\ getSession(sessions, id, now) = sessions[id]
           /\ \A v \in AuthVersions, path \in Paths :
                 authMiddleware(v, path, CookieHeader(v.cookie, id), sessions, now).next

C16_Frame ==
    /\ \A id \in DOMAIN sessions \cap DOMAIN sessions' : sessions'[id] = sessions[id]
    /\ nextSession' # nextSession
       => /\ DOMAIN sessions' = DOMAIN sessions \cup {nextSession}
          /\ nextSession \notin DOMAIN sessions
    /\ revoked' # revoked
       => \E r \in revoked' \ revoked : DOMAIN sessions \ DOMAIN sessions' = {r.id}

(* C16, both parts *)
C16_SessionIndependence == [](C16_OthersValid) /\ [][C16_Frame]_vars

(* logout has removed one session and a live session of the same           *)
(* fingerprint is still in the ledger                                      *)
C16_Witness ==
    /\ last.op = "logout"
    /\ last.id \in RevokedIds
    /\ \E r \in revoked, id \in DOMAIN sessions :
          /\ r.id = last.id
          /\ sessions[id].keyFingerprint = r.keyFingerprint
          /\ LiveSession(id)

(* C17 as claimed: a logout with no cookie, or for a session id that is    *)
(* absent, already revoked or already expired, leaves the session ledger   *)
(* unchanged.                                                              *)
C17_LogoutLeavesLedger ==
    \A header \in CookieHeaders :
        LET id == parseCookies(header)[LoginCookieName] IN
        (id = 0 \/ id \notin DOMAIN sessions \/ id \in ExpiredSessions)
        => logoutLedger(header, sessions) = sessions

(* C17 as amended: logout never errors; with no cookie, or for a session   *)
(* id that is not in the ledger (never issued, already revoked, or expired *)
(* and already removed), it leaves the ledger unchanged; for an id that is *)
(* in the ledger, expired or not, it removes that entry and no other; and  *)
(* a second logout leaves the state the first one left.                    *)
C17_LogoutInState ==
    \A header \in CookieHeaders :
        LET id == parseCookies(header)[LoginCookieName]
            after == logoutLedger(header, sessions)
        IN
        /\ (id = 0 \/ id \notin DOMAIN sessions) => after = sessions
        /\ DOMAIN after = DOMAIN sessions \ {id}
        /\ \A k \in DOMAIN after : after[k] = sessions[k]
        /\ logoutLedger(header, after) = after

C17_LogoutStep ==
    (last' # last /\ last'.op = "logout")
    => /\ last'.valid
       /\ last'.error = NoError
       /\ DOMAIN sessions \ DOMAIN sessions' \subseteq {last'.id}
       /\ last'.id \notin DOMAIN sessions'

(* C17 as amended, both parts *)
C17_IdempotentLogout == [](C17_LogoutInState) /\ [][C17_LogoutStep]_vars

(* a logout that removed nothing: its cookie named a session that had been *)
(* issued and was no longer in the ledger, while another session is        *)
(* (revoked records the removals)                                          *)
C17_Witness ==
    /\ last.op = "logout"
    /\ last.valid
    /\ last.id \in 1 .. nextSession - 1
    /\ last.id \notin RevokedIds
    /\ last.id \notin DOMAIN sessions
    /\ DOMAIN sessions # {}

(* C18: session lazy expiry.  In every state, getSession returns no        *)
(* session whose expiresAt has passed, although the sweep has not removed  *)
(* it, and that lookup removes the entry; for a live session it returns    *)
(* the record and leaves the ledger as it is; for an unknown id it returns *)
(* null and leaves the ledger as it is.                                    *)
C18_LookupInState ==
    \A id \in CookieValues :
        /\ id \in ExpiredSessions
           => /\ getSession(sessions, id, now) = NoSession
              /\ getSessionLedger(sessions, id, now)
                    = [k \in DOMAIN sessions \ {id} |-> sessions[k]]
        /\ LiveSession(id)
           => /\ getSession(sessions, id, now) = sessions[id]
              /\ getSessionLedger(sessions, id, now) = sessions
        /\ id \notin DOMAIN sessions
           => /\ getSession(sessions, id, now) = NoSession
              /\ getSessionLedger(sessions, id, now) = sessions

(* the session check and gating, which call getSession *)
C18_LookupStep ==
    (last' # last /\ last'.op \in {"session", "authMiddleware"} /\ last'.id # 0)
    => /\ last'.valid <=> LiveSession(last'.id)
       /\ last'.id \in ExpiredSessions => last'.id \notin DOMAIN sessions'
       /\ \A k \in DOMAIN sessions \ {last'.id} :
             k \in DOMAIN sessions' /\ sessions'[k] = sessions[k]
       /\ LiveSession(last'.id) => sessions' = sessions

(* C18, both parts *)
C18_SessionLazyExpiry == [](C18_LookupInState) /\ [][C18_LookupStep]_vars

(* the session check answered authenticated: false for a session that was  *)
(* issued and never revoked, while a session issued later is still live    *)
C18_Witness ==
    /\ last.op = "session"
    /\ ~last.valid
    /\ last.id \in 1 .. nextSession - 1
    /\ last.id \notin RevokedIds
    /\ last.id \notin DOMAIN sessions
    /\ \E id \in DOMAIN sessions : LiveSession(id)

(* C19: every session in the ledger has expiresAt = createdAt + 24 hours;  *)
(* no step changes the expiresAt of a session that stays in the ledger,    *)
(* and a login adds a record under a new session id.                       *)
C19_ExpiresAtInState ==
    \A id \in DOMAIN sessions :
        sessions[id].expiresAt = sessions[id].createdAt + SESSION_EXPIRY

C19_NeverRefreshed ==
    /\ \A id \in DOMAIN sessions \cap DOMAIN sessions' :
          sessions'[id].expiresAt = sessions[id].expiresAt
    /\ \A id \in DOMAIN sessions' \ DOMAIN sessions : id = nextSession

C19_FixedLifetime == [](C19_ExpiresAtInState) /\ [][C19_NeverRefreshed]_vars

(* C20: every challenge in the ledger has expiresAt = createdAt + 60       *)
(* seconds; a createChallenge call that succeeds adds exactly one record,  *)
(* bound to the fingerprint of the presented certificate, and one that     *)
(* returns an error leaves the ledger unchanged.                           *)
C20_ExpiresAtInState ==
    \A id \in DOMAIN challenges :
        challenges[id].expiresAt = challenges[id].createdAt + CHALLENGE_EXPIRY

C20_CreateChallengeStep ==
    \A pem \in PemInputs, caOk \in BOOLEAN :
        CreateChallenge(pem, caOk)
        => IF parseCertFromPem(pem) /\ ~X509Throws(pem) /\ caOk /\ CertVerify(pem)
              /\ ~CertExpired(pem, now)
           THEN /\ DOMAIN challenges' = DOMAIN challenges \cup {nextChallenge}
                /\ nextChallenge \notin DOMAIN challenges
                /\ challenges'[nextChallenge].certFingerprint = pem.fp
                /\ \A id \in DOMAIN challenges : challenges'[id] = challenges[id]
           ELSE /\ challenges' = challenges
                /\ ~last'.valid

C20_IssuesOneChallenge == [](C20_ExpiresAtInState) /\ [][C20_CreateChallengeStep]_vars

(* C21: when ca.crt could not be read while a login was handled, the       *)
(* answer has a 5xx status, distinct from the 401 of an authentication     *)
(* failure.                                                                *)
C21_OutageIsServerError ==
    (last.op = "login" /\ last.error = ErrThrownRead)
    => \A k \in LoginKeys, pem \in PemInputs, dirOk \in BOOLEAN :
          LET r == loginRoute(k, pem, FALSE, dirOk, now) IN
          r.result.error = ErrThrownRead
          => r.status >= 500 /\ r.status # StatusUnauthorized

(* C22: a login completion whose signature text is not well-formed base64  *)
(* is answered with an error of its own, told apart from "Invalid          *)
(* signature", and is never accepted.                                      *)
ErrBadEncoding == "Invalid signature encoding"

C22_MalformedStep ==
    \A i \in DOMAIN pending :
        (pending' = RemoveAt(pending, i) /\ last' # last /\ pending[i].sig.stray
         /\ pending[i].pem.signedByCA /\ last'.error # ErrThrownRead)
        => /\ ~last'.valid
           /\ last'.error = ErrBadEncoding

C22_StrictEncoding == [][C22_MalformedStep]_vars

(* C23: the request context a protected request is admitted with holds the *)
(* fingerprint and the username of the session, at most its expiry too,    *)
(* and neither the session id nor the record of the ledger itself.         *)
C23_MinimalContext ==
    \A v \in AuthVersions, path \in Paths, header \in CookieHeaders :
        LET res == authMiddleware(v, path, header, sessions, now) IN
        (Protected(v, path) /\ res.next)
        => /\ {"keyFingerprint", "username"} \subseteq DOMAIN res.session
           /\ DOMAIN res.session \subseteq {"keyFingerprint", "username", "expiresAt"}
           /\ res.session # sessions[parseCookies(header)[v.cookie]]

(* C24: extractUsername returns the value of the CN attribute of the       *)
(* subject when there is one, wherever it stands among the attributes,     *)
(* otherwise the value of the emailAddress attribute, otherwise null.      *)
HasAttr(k) == \E i \in DOMAIN certSubject : certSubject[i].k = k

IsFirstOf(k, value) ==
    \E i \in DOMAIN certSubject :
        /\ certSubject[i] = Attr(k, value)
        /\ \A j \in 1 .. i - 1 : certSubject[j].k # k

C24_CommonNameFirst ==
    extracted # NotExtracted
    => /\ HasAttr("CN") => IsFirstOf("CN", extracted)
       /\ (~HasAttr("CN") /\ HasAttr("emailAddress")) => IsFirstOf("emailAddress", extracted)
       /\ (~HasAttr("CN") /\ ~HasAttr("emailAddress")) <=> extracted = Null

C24_Witness ==
    /\ extracted = "bob"
    /\ \E i, j \in DOMAIN certSubject :
          /\ i < j
          /\ certSubject[i] = Attr("emailAddress", "alice")
          /\ certSubject[j] = Attr("CN", "bob")

(* C25: when the periodic cleanup removed the record of a challenge, no    *)
(* login completion on that challengeId succeeds afterwards, and the       *)
(* record stays absent.                                                    *)
C25_SweptStaysAbsent == \A id \in swept : id \notin DOMAIN challenges

C25_SweptNeverAccepted == \A id \in swept : accepted'[id] = accepted[id]

C25_SweepWins == [](C25_SweptStaysAbsent) /\ [][C25_SweptNeverAccepted]_vars

(* C26: a run of the periodic cleanup removes exactly the sessions and the *)
(* challenges whose expiresAt is before the current time and leaves every  *)
(* other entry as it was; after it no expired entry is in either ledger.   *)
SweptExactly(before, after) ==
    /\ DOMAIN after = {id \in DOMAIN before : ~(before[id].expiresAt < now)}
    /\ \A id \in DOMAIN after : after[id] = before[id]
    /\ \A id \in DOMAIN after : ~(after[id].expiresAt < now')

C26_SweepStep ==
    Sweep => /\ SweptExactly(sessions, sessions')
             /\ SweptExactly(challenges, challenges')

C27_SessionsHaveCertificate ==
    \A id \in DOMAIN sessions :
        \E cert \in Certs :
            /\ cert.fp = sessions[id].keyFingerprint
            /\ CertVerify(cert)
            /\ ~CertExpired(cert, sessions[id].createdAt)

(* C28: a request for /api/auth/login, /api/auth/logout, /api/auth/session,*)
(* /api/auth/challenge, /api/health or for a path that does not start with *)
(* /api/ is passed on by authMiddleware whatever its cookie, and the       *)
(* session ledger is neither consulted nor changed.                        *)
PublicPaths ==
    {path \in Paths :
        \/ path \in {<<"api", "auth", "login">>, <<"api", "auth", "logout">>,
                     <<"api", "auth", "session">>, <<"api", "auth", "challenge">>,
                     <<"api", "health">>}
        \/ path[1] # "api"}

C28_PublicInState ==
    \A path \in PublicPaths, header \in CookieHeaders :
        /\ authMiddleware(ChallengeAuth, path, header, sessions, now).next
        /\ authMiddleware(ChallengeAuth, path, header, sessions, now)
              = authMiddleware(ChallengeAuth, path, header, EmptyMap, now)
        /\ authMiddlewareLedger(ChallengeAuth, path, header, sessions, now) = sessions

C28_PublicStep ==
    (last' # last /\ last'.op = "authMiddleware" /\ last'.valid /\ last'.id = 0)
    => sessions' = sessions

C28_PublicPassThrough == [](C28_PublicInState) /\ [][C28_PublicStep]_vars

C28_Witness ==
    /\ last.op = "authMiddleware"
    /\ last.valid
    /\ last.id = 0
    /\ \E id \in DOMAIN sessions : now > sessions[id].expiresAt
    /\ \E id \in DOMAIN sessions : now <= sessions[id].expiresAt

(* C29: isRunning is true exactly when the collection timer and the        *)
(* cleanup timer are both set; start() on a running collector and stop()   *)
(* on a stopped one change nothing; at no time is more than one collection *)
(* interval or more than one cleanup interval set.                         *)
TimersOf(kind) == {id \in DOMAIN timers : timers[id] = kind}

C29_TimersInState ==
    /\ isRunning <=> (collectionTimer # 0 /\ cleanupTimer # 0)
    /\ ~isRunning => (collectionTimer = 0 /\ cleanupTimer = 0)
    /\ TimersOf("collect") = {collectionTimer} \ {0}
    /\ TimersOf("cleanup") = {cleanupTimer} \ {0}
    /\ Cardinality(TimersOf("collect")) <= 1
    /\ Cardinality(TimersOf("cleanup")) <= 1

C29_RunningStep ==
    /\ (isRunning /\ Start) => UNCHANGED statsVars
    /\ (~isRunning /\ Stop) => UNCHANGED statsVars
    /\ (isRunning <=> isRunning')
       => /\ timers' = timers
          /\ collectionTimer' = collectionTimer
          /\ cleanupTimer' = cleanupTimer
          /\ nextTimer' = nextTimer

C29_TimerDiscipline == [](C29_TimersInState) /\ [][C29_RunningStep]_vars

C29_Witness ==
    /\ isRunning
    /\ nextTimer = 5
    /\ collectionTimer = 3
    /\ cleanupTimer = 4
    /\ DOMAIN timers = {3, 4}

(* C30: whatever the interleaving of collect() and cleanup() calls,        *)
(* dataPoints is ordered by non-decreasing timestamp, and the oldest and   *)
(* newest timestamps of getSummary are the least and the greatest          *)
(* timestamp held (null when there is none).                               *)
Timestamps == {dataPoints[i].timestamp : i \in DOMAIN dataPoints}

C30_OrderedHistory ==
    /\ \A i, j \in DOMAIN dataPoints :
          i < j => dataPoints[i].timestamp <= dataPoints[j].timestamp
    /\ LET summary == getSummary(dataPoints, isRunning) IN
       IF dataPoints = <<>>
       THEN summary.oldestTimestamp = Null /\ summary.newestTimestamp = Null
       ELSE /\ summary.oldestTimestamp \in Timestamps
            /\ summary.newestTimestamp \in Timestamps
            /\ \A t \in Timestamps :
                  summary.oldestTimestamp <= t /\ t <= summary.newestTimestamp

C30_Witness ==
    /\ Len(dataPoints) >= 2
    /\ dataPoints[1].timestamp < dataPoints[Len(dataPoints)].timestamp
    /\ cleanup(dataPoints, now) # dataPoints
    /\ cleanup(dataPoints, now) # <<>>
    /\ collecting.json > 0
    /\ TimersOf("cleanup") # {}

====
